---- MODULE Spec2Model ----
(***************************************************************************)
(* Ruida bridge: a TCP session manager (TcpServer), a per-connection       *)
(* envelope parser (ConnectionHandler) and the shared UDP transport        *)
(* (UdpRelay), modelled as one event loop: every action is one callback    *)
(* of the runtime (socket open/data/close, UDP datagram, timer) run to     *)
(* completion.                                                             *)
(***************************************************************************)
EXTENDS Integers, Sequences, FiniteSets, TLC

VARIABLES
    currentConnection,       \* TcpServer.currentConnection (NoConn = null)
    connectionQueue,         \* TcpServer.connectionQueue
    isProcessingConnection,  \* TcpServer.isProcessingConnection
    connectionStates,        \* ConnectionHandler.connectionStates (a Map)
    udpRelay,                \* the fields of the UdpRelay singleton
    intervals,               \* connections whose timeout setInterval is live
    sockets,                 \* runtime view of each TCP socket
    inflight,                \* bytes a client has written, not yet delivered
    phase,                   \* RuidaBridgeApp lifecycle
    ev                       \* the callback that ran last, and what it did

vars == <<currentConnection, connectionQueue, isProcessingConnection,
          connectionStates, udpRelay, intervals, sockets, inflight, phase, ev>>

----------------------------------------------------------------------------
(* Bounds of the model *)

NumConns == 3
MaxPendingWrites == 2
MaxRetryTimers == 2
MaxBuffered == 3

----------------------------------------------------------------------------
(* Program constants *)

MAX_UDP_SIZE == 1472
ACK_SUCCESS == 198
ACK_ERROR == 70
ACK_CHECKSUM_MATCH == 204
ACK_CHECKSUM_FAIL == 207
CMD_CONNECT == 204
CMD_DISCONNECT == 205
CMD_KEEPALIVE == 206
Laser == 76
Ping == 80
maxRetries == 3
maxHandshakeRetries == 3
MAGIC == 136
version == <<1, 0>>

NoConn == 0
Conns == 1..NumConns

----------------------------------------------------------------------------
(* Byte helpers *)

Min(a, b) == IF a < b THEN a ELSE b

RECURSIVE xor(_, _, _)
xor(a, b, n) ==
    IF n = 0 THEN 0
    ELSE (((a % 2) + (b % 2)) % 2) + (2 * xor(a \div 2, b \div 2, n - 1))

swizzleByte_noSwap(b, magic) ==
    (xor(b, magic, 8) + 1) % 256

swizzleByte(b, magic) ==
    LET fb == (b \div 128) * 128
        lb == b % 2
        cleared == b - fb - lb
        swapped == cleared + (lb * 128) + (fb \div 128)
        xored == xor(swapped, magic, 8)
    IN  (xored + 1) % 256

\* swizzleByte(b, 0x88) for every byte value, computed once
swizzleTable == [b \in 0..255 |-> swizzleByte(b, MAGIC)]

encodeBytes(data, magic) ==
    [i \in 1..Len(data) |->
        IF magic = MAGIC THEN swizzleTable[data[i]]
        ELSE swizzleByte(data[i], magic)]

RECURSIVE sumRange(_, _, _)
sumRange(s, lo, hi) ==
    IF lo > hi THEN 0
    ELSE IF lo = hi THEN s[lo]
    ELSE LET mid == (lo + hi) \div 2
         IN  sumRange(s, lo, mid) + sumRange(s, mid + 1, hi)

checksum(bytes) == sumRange(bytes, 1, Len(bytes)) % 65536

checksumHeader(cs) == <<(cs \div 256) % 256, cs % 256>>

udpPacket_plainChecksum(packetData) ==
    LET encodedData == encodeBytes(packetData, MAGIC)
    IN  checksumHeader(checksum(packetData)) \o encodedData

udpPacket(packetData) ==
    LET encodedData == encodeBytes(packetData, MAGIC)
    IN  checksumHeader(checksum(encodedData)) \o encodedData

controlPacket(cmd) == udpPacket(<<cmd>>)

fragments_wholeOnly(packet) ==
    LET n == Len(packet) \div MAX_UDP_SIZE
    IN  [k \in 1..n |->
            SubSeq(packet, (k - 1) * MAX_UDP_SIZE + 1, k * MAX_UDP_SIZE)]

fragments(packet) ==
    LET n == (Len(packet) + MAX_UDP_SIZE - 1) \div MAX_UDP_SIZE
    IN  [k \in 1..n |->
            SubSeq(packet, (k - 1) * MAX_UDP_SIZE + 1,
                   Min(k * MAX_UDP_SIZE, Len(packet)))]

----------------------------------------------------------------------------
(* UdpRelay.  u is the record of the relay's fields.  u.wire lists the     *)
(* datagrams handed to socket.send by the callback that ran last;          *)
(* u.uncaught records a TypeError raised by it; u.retryTimers and          *)
(* u.handshakeTimers count the armed setTimeout callbacks and              *)
(* u.keepaliveTimers the live setInterval timers; u.outstanding is the     *)
(* payload datagram of the transmission in progress that was transmitted   *)
(* last, and u.firstSent the number of times the first datagram of that    *)
(* transmission has gone out.                                              *)

Transmit(u, kind, index, bytes) ==
    LET d == [kind |-> kind, index |-> index, bytes |-> bytes]
    IN  [u EXCEPT !.wire = Append(@, d),
                  !.outstanding = IF kind \in {"data", "fragment"}
                                  THEN d ELSE @,
                  !.firstSent = IF kind \in {"data", "fragment"} /\ index = 0
                                THEN @ + 1 ELSE @]

sendFragment(u, fragmentIndex) ==
    IF fragmentIndex >= Len(u.pendingFragments) THEN u
    ELSE IF ~u.socket THEN [u EXCEPT !.uncaught = TRUE]
    ELSE [Transmit(u, "fragment", fragmentIndex,
                   u.pendingFragments[fragmentIndex + 1])
            EXCEPT !.gotAck = FALSE]

sendToLaser_noAckGate(u, packetData) ==
    IF ~u.isStarted \/ ~u.socket THEN u
    ELSE LET packet == udpPacket(packetData)
         IN  IF Len(packet) <= MAX_UDP_SIZE
             THEN [Transmit([u EXCEPT !.firstSent = 0], "data", 0, packet)
                     EXCEPT !.gotAck = FALSE]
             ELSE sendFragment(
                    [u EXCEPT !.pendingFragments = fragments(packet),
                              !.currentFragmentIndex = 0,
                              !.firstSent = 0], 0)

sendToLaser_handshakeGate(u, packetData) ==
    IF ~u.isStarted \/ ~u.socket THEN u
    ELSE IF ~u.isHandshakeComplete THEN u
    ELSE IF ~u.gotAck THEN u
    ELSE LET packet == udpPacket(packetData)
         IN  IF Len(packet) <= MAX_UDP_SIZE
             THEN [Transmit([u EXCEPT !.firstSent = 0], "data", 0, packet)
                     EXCEPT !.gotAck = FALSE]
             ELSE sendFragment(
                    [u EXCEPT !.pendingFragments = fragments(packet),
                              !.currentFragmentIndex = 0,
                              !.firstSent = 0], 0)

sendToLaser(u, packetData) ==
    IF ~u.isStarted \/ ~u.socket THEN u
    ELSE IF ~u.gotAck THEN u
    ELSE LET packet == udpPacket(packetData)
         IN  IF Len(packet) <= MAX_UDP_SIZE
             THEN [Transmit([u EXCEPT !.firstSent = 0], "data", 0, packet)
                     EXCEPT !.gotAck = FALSE]
             ELSE sendFragment(
                    [u EXCEPT !.pendingFragments = fragments(packet),
                              !.currentFragmentIndex = 0,
                              !.firstSent = 0], 0)

startKeepalive_noClear(u) ==
    [u EXCEPT !.keepaliveTimers = @ + 1,
              !.keepaliveInterval = TRUE]

startKeepalive(u) ==
    [u EXCEPT !.keepaliveTimers =
                 (IF u.keepaliveInterval THEN @ - 1 ELSE @) + 1,
              !.keepaliveInterval = TRUE]

NoDatagram == [kind |-> "none", index |-> 0, bytes |-> <<>>]

\* the transmission is over: no datagram of it is outstanding any more
Settled(u) == [u EXCEPT !.outstanding = NoDatagram, !.firstSent = 0]

handleAckResponse_retryAnyFragment(u, ackByte) ==
    CASE ackByte = ACK_SUCCESS ->
            LET u1 == [u EXCEPT !.gotAck = TRUE, !.retryCount = 0]
            IN  IF Len(u1.pendingFragments) > 0
                THEN LET u2 == [u1 EXCEPT !.currentFragmentIndex = @ + 1]
                     IN  IF u2.currentFragmentIndex < Len(u2.pendingFragments)
                         THEN sendFragment(u2, u2.currentFragmentIndex)
                         ELSE Settled([u2 EXCEPT !.pendingFragments = <<>>,
                                                 !.currentFragmentIndex = 0])
                ELSE Settled(u1)
      [] ackByte = ACK_ERROR ->
            IF u.retryCount < maxRetries
            THEN [u EXCEPT !.gotAck = FALSE,
                           !.retryCount = @ + 1,
                           !.retryTimers = @ + 1]
            ELSE Settled([u EXCEPT !.pendingFragments = <<>>,
                                   !.currentFragmentIndex = 0,
                                   !.retryCount = 0,
                                   !.gotAck = TRUE])
      [] ackByte = ACK_CHECKSUM_MATCH ->
            startKeepalive([u EXCEPT !.isHandshakeComplete = TRUE,
                                     !.gotAck = TRUE,
                                     !.handshakeRetryCount = 0])
      [] ackByte = ACK_CHECKSUM_FAIL ->
            [u EXCEPT !.isHandshakeComplete = FALSE, !.gotAck = FALSE]
      [] OTHER -> [u EXCEPT !.gotAck = TRUE]

handleAckResponse(u, ackByte) ==
    CASE ackByte = ACK_SUCCESS ->
            LET u1 == [u EXCEPT !.gotAck = TRUE, !.retryCount = 0]
            IN  IF Len(u1.pendingFragments) > 0
                THEN LET u2 == [u1 EXCEPT !.currentFragmentIndex = @ + 1]
                     IN  IF u2.currentFragmentIndex < Len(u2.pendingFragments)
                         THEN sendFragment(u2, u2.currentFragmentIndex)
                         ELSE Settled([u2 EXCEPT !.pendingFragments = <<>>,
                                                 !.currentFragmentIndex = 0])
                ELSE Settled(u1)
      [] ackByte = ACK_ERROR ->
            IF u.currentFragmentIndex = 0 /\ u.retryCount < maxRetries
            THEN [u EXCEPT !.gotAck = FALSE,
                           !.retryCount = @ + 1,
                           !.retryTimers = @ + 1]
            ELSE Settled([u EXCEPT !.pendingFragments = <<>>,
                                   !.currentFragmentIndex = 0,
                                   !.retryCount = 0,
                                   !.gotAck = TRUE])
      [] ackByte = ACK_CHECKSUM_MATCH ->
            startKeepalive([u EXCEPT !.isHandshakeComplete = TRUE,
                                     !.gotAck = TRUE,
                                     !.handshakeRetryCount = 0])
      [] ackByte = ACK_CHECKSUM_FAIL ->
            [u EXCEPT !.isHandshakeComplete = FALSE, !.gotAck = FALSE]
      [] OTHER -> [u EXCEPT !.gotAck = TRUE]

retryFirstChunk(u) ==
    LET u1 == [u EXCEPT !.retryTimers = @ - 1]
    IN  IF Len(u1.pendingFragments) > 0 THEN sendFragment(u1, 0) ELSE u1

sendHandshake_noBudget(u) ==
    IF ~u.socket THEN u
    ELSE [Transmit(u, "handshake", 0, controlPacket(CMD_CONNECT))
            EXCEPT !.handshakeRetryCount = @ + 1,
                   !.handshakeTimers = @ + 1]

sendHandshake(u) ==
    IF ~u.socket THEN u
    ELSE IF u.handshakeRetryCount >= maxHandshakeRetries THEN u
    ELSE [Transmit(u, "handshake", 0, controlPacket(CMD_CONNECT))
            EXCEPT !.handshakeRetryCount = @ + 1,
                   !.handshakeTimers = @ + 1]

handshakeTimeout(u) ==
    LET u1 == [u EXCEPT !.handshakeTimers = @ - 1]
    IN  IF ~u1.isHandshakeComplete THEN sendHandshake(u1) ELSE u1

sendDisconnect(u) ==
    IF ~u.socket THEN u
    ELSE Transmit(u, "disconnect", 0, controlPacket(CMD_DISCONNECT))

keepaliveTick_noAckGate(u) ==
    IF u.socket /\ u.isHandshakeComplete
    THEN Transmit(u, "keepalive", 0, controlPacket(CMD_KEEPALIVE))
    ELSE u

keepaliveTick(u) ==
    IF u.socket /\ u.isHandshakeComplete /\ u.gotAck
    THEN Transmit(u, "keepalive", 0, controlPacket(CMD_KEEPALIVE))
    ELSE u

relayStart(u) ==
    IF u.isStarted THEN u
    ELSE sendHandshake([u EXCEPT !.socket = TRUE, !.isStarted = TRUE])

relayStop(u) ==
    IF ~u.isStarted THEN u
    ELSE [sendDisconnect(u) EXCEPT !.keepaliveTimers =
                                      IF u.keepaliveInterval THEN @ - 1 ELSE @,
                                   !.keepaliveInterval = FALSE,
                                   !.socket = FALSE,
                                   !.callbacks = {},
                                   !.isStarted = FALSE,
                                   !.isHandshakeComplete = FALSE,
                                   !.handshakeRetryCount = 0]

relayData(u, buf) ==
    IF Len(buf) = 1 THEN handleAckResponse(u, buf[1])
    ELSE [u EXCEPT !.gotAck = TRUE]

registerCallback(u, c) == [u EXCEPT !.callbacks = @ \cup {c}]

unregisterCallback(u, c) == [u EXCEPT !.callbacks = @ \ {c}]

InitRelay ==
    [isStarted |-> FALSE, socket |-> FALSE, callbacks |-> {},
     gotAck |-> TRUE, isHandshakeComplete |-> FALSE,
     pendingFragments |-> <<>>, currentFragmentIndex |-> 0,
     retryCount |-> 0, handshakeRetryCount |-> 0,
     keepaliveInterval |-> FALSE,
     keepaliveTimers |-> 0, retryTimers |-> 0, handshakeTimers |-> 0,
     wire |-> <<>>, uncaught |-> FALSE, firstSent |-> 0,
     outstanding |-> NoDatagram]

----------------------------------------------------------------------------
(* Runtime view of a TCP socket: "idle" (not yet connected), "open",       *)
(* "ended" (socket.end() was called, close not yet reported), "closed"     *)
(* (socket.closed is true, the close callback is still to run), "done"     *)
(* (the close callback has run).                                           *)

Closed(c) == sockets[c] \in {"closed", "done"}

FullWrite == 65536

bytesWritten(n, data) == IF n < 0 THEN -1 ELSE Min(n, Len(data))

----------------------------------------------------------------------------
(* ConnectionHandler.  G is the record of everything a callback can        *)
(* change: the TcpServer fields, connectionStates, the relay, and the      *)
(* socket.write / socket.end calls the callback has made so far.           *)

InitState ==
    [packet |-> <<>>, packetLen |-> 0, packetType |-> 0, gotAck |-> TRUE,
     lastLen |-> 0, late |-> FALSE, canWrite |-> TRUE, pendingWrites |-> <<>>]

hasState(G, c) == c \in DOMAIN G.connectionStates

setState(G, c, st) ==
    [G EXCEPT !.connectionStates =
        [x \in (DOMAIN G.connectionStates) \cup {c} |->
            IF x = c THEN st ELSE G.connectionStates[x]]]

socketEnd(G, c) == [G EXCEPT !.ended = @ \cup {c}]

handleConnection(G, c) ==
    LET G1 == setState(G, c, InitState)
    IN  [G1 EXCEPT !.udpRelay = registerCallback(@, c),
                   !.intervals = @ \cup {c}]

cleanupConnection_keepCallback(G, c) ==
    IF hasState(G, c)
    THEN [G EXCEPT !.intervals = @ \ {c},
                   !.connectionStates =
                       [x \in (DOMAIN G.connectionStates) \ {c} |->
                           G.connectionStates[x]]]
    ELSE G

cleanupConnection(G, c) ==
    IF hasState(G, c)
    THEN [G EXCEPT !.intervals = @ \ {c},
                   !.udpRelay = unregisterCallback(@, c),
                   !.connectionStates =
                       [x \in (DOMAIN G.connectionStates) \ {c} |->
                           G.connectionStates[x]]]
    ELSE G

timeoutCheck_ignoreAck(G, c) ==
    IF ~hasState(G, c) \/ ~G.connectionStates[c].late
    THEN G
    ELSE socketEnd(cleanupConnection(G, c), c)

timeoutCheck(G, c) ==
    IF ~hasState(G, c) \/ G.connectionStates[c].gotAck
         \/ ~G.connectionStates[c].late
    THEN G
    ELSE socketEnd(cleanupConnection(G, c), c)

writeToSocket_queueRemainderLast(G, c, data, n) ==
    IF ~hasState(G, c) \/ Closed(c) THEN G
    ELSE LET st == G.connectionStates[c]
             G0 == [G EXCEPT !.offered =
                       Append(@, [conn |-> c, data |-> data])]
         IN  IF ~st.canWrite
             THEN setState(G0, c, [st EXCEPT !.pendingWrites = Append(@, data)])
             ELSE LET w == bytesWritten(n, data)
                      G1 == [G0 EXCEPT !.writes =
                               Append(@, [conn |-> c, data |-> data,
                                          written |-> w])]
                  IN  IF w = -1 THEN G1
                      ELSE IF w < Len(data)
                      THEN setState(G1, c,
                             [st EXCEPT !.pendingWrites =
                                  Append(@, SubSeq(data, w + 1, Len(data))),
                                        !.canWrite = FALSE])
                      ELSE G1

writeToSocket(G, c, data, n) ==
    IF ~hasState(G, c) \/ Closed(c) THEN G
    ELSE LET st == G.connectionStates[c]
             G0 == [G EXCEPT !.offered =
                       Append(@, [conn |-> c, data |-> data])]
         IN  IF ~st.canWrite
             THEN setState(G0, c, [st EXCEPT !.pendingWrites = Append(@, data)])
             ELSE LET w == bytesWritten(n, data)
                      G1 == [G0 EXCEPT !.writes =
                               Append(@, [conn |-> c, data |-> data,
                                          written |-> w])]
                  IN  IF w = -1 THEN G1
                      ELSE IF w < Len(data)
                      THEN setState(G1, c,
                             [st EXCEPT !.pendingWrites =
                                  <<SubSeq(data, w + 1, Len(data))>> \o @,
                                        !.canWrite = FALSE])
                      ELSE G1

RECURSIVE flushPending(_, _, _)
flushPending(G, c, n) ==
    LET st == G.connectionStates[c]
    IN  IF Len(st.pendingWrites) > 0 /\ st.canWrite
        THEN LET data == Head(st.pendingWrites)
                 G1 == setState(G, c, [st EXCEPT !.pendingWrites = Tail(@)])
             IN  flushPending(writeToSocket(G1, c, data, n), c, n)
        ELSE G

handleDrain(G, c, n) ==
    IF ~hasState(G, c) THEN G
    ELSE flushPending(
           setState(G, c, [G.connectionStates[c] EXCEPT !.canWrite = TRUE]),
           c, n)

header(type, len) == <<type, (len \div 256) % 256, len % 256>>

parseHeader_keepHeader(s0) ==
    IF s0.packetLen = 0 /\ Len(s0.packet) >= 3
    THEN [s0 EXCEPT !.packetType = s0.packet[1],
                    !.packetLen = s0.packet[2] * 256 + s0.packet[3]]
    ELSE s0

parseHeader(s0) ==
    IF s0.packetLen = 0 /\ Len(s0.packet) >= 3
    THEN [s0 EXCEPT !.packetType = s0.packet[1],
                    !.packetLen = s0.packet[2] * 256 + s0.packet[3],
                    !.packet = SubSeq(s0.packet, 4, Len(s0.packet))]
    ELSE s0

forwardToLaser(G, c, s2, packetData) ==
    LET G1 == [G EXCEPT !.udpRelay = sendToLaser(@, packetData),
                        !.dispatched = Append(@, packetData)]
    IN  setState(G1, c, [s2 EXCEPT !.lastLen = Len(packetData),
                                   !.late = FALSE,
                                   !.gotAck = FALSE])

processPacket_pingAwaitsAck(G, c, s2, packetData, n) ==
    IF s2.packetType = Laser
    THEN forwardToLaser(G, c, s2, packetData)
    ELSE IF s2.packetType = Ping
    THEN writeToSocket(setState(G, c, [s2 EXCEPT !.gotAck = FALSE]), c,
                       header(Ping, 2) \o version, n)
    ELSE setState(G, c, s2)

processPacket_forwardUnknown(G, c, s2, packetData, n) ==
    IF s2.packetType = Ping
    THEN writeToSocket(setState(G, c, s2), c, header(Ping, 2) \o version, n)
    ELSE forwardToLaser(G, c, s2, packetData)

processPacket(G, c, s2, packetData, n) ==
    IF s2.packetType = Laser
    THEN forwardToLaser(G, c, s2, packetData)
    ELSE IF s2.packetType = Ping
    THEN writeToSocket(setState(G, c, s2), c, header(Ping, 2) \o version, n)
    ELSE setState(G, c, s2)

handleData(G, c, data, n) ==
    IF ~hasState(G, c) THEN G
    ELSE IF ~G.connectionStates[c].gotAck THEN G
    ELSE
      LET s0 == [G.connectionStates[c] EXCEPT !.packet = @ \o data]
          s1 == parseHeader(s0)
      IN  IF s1.packetLen > 0 /\ Len(s1.packet) >= s1.packetLen
          THEN LET packetData == SubSeq(s1.packet, 1, s1.packetLen)
                   s2 == [s1 EXCEPT !.packet = SubSeq(s1.packet,
                                          s1.packetLen + 1, Len(s1.packet)),
                                    !.packetLen = 0]
               IN  processPacket(G, c, s2, packetData, n)
          ELSE setState(G, c, s1)

forwardUdpResponseToTcp_noEnvelope(G, c, data, n) ==
    IF ~hasState(G, c) THEN G
    ELSE LET G1 == IF ~Closed(c)
                   THEN writeToSocket(G, c, data, n)
                   ELSE G
             st == G1.connectionStates[c]
         IN  IF Len(data) = 1
             THEN IF data[1] = ACK_SUCCESS \/ data[1] = ACK_CHECKSUM_MATCH
                  THEN setState(G1, c, [st EXCEPT !.gotAck = TRUE])
                  ELSE IF data[1] = ACK_ERROR \/ data[1] = ACK_CHECKSUM_FAIL
                  THEN setState(G1, c, [st EXCEPT !.gotAck = FALSE])
                  ELSE G1
             ELSE setState(G1, c, [st EXCEPT !.gotAck = TRUE])

forwardUdpResponseToTcp(G, c, data, n) ==
    IF ~hasState(G, c) THEN G
    ELSE LET G1 == IF ~Closed(c)
                   THEN writeToSocket(G, c,
                            header(Laser, Len(data)) \o data, n)
                   ELSE G
             st == G1.connectionStates[c]
         IN  IF Len(data) = 1
             THEN IF data[1] = ACK_SUCCESS \/ data[1] = ACK_CHECKSUM_MATCH
                  THEN setState(G1, c, [st EXCEPT !.gotAck = TRUE])
                  ELSE IF data[1] = ACK_ERROR \/ data[1] = ACK_CHECKSUM_FAIL
                  THEN setState(G1, c, [st EXCEPT !.gotAck = FALSE])
                  ELSE G1
             ELSE setState(G1, c, [st EXCEPT !.gotAck = TRUE])

onLaserResponse(G, c, data, n) ==
    IF hasState(G, c) THEN forwardUdpResponseToTcp(G, c, data, n) ELSE G

RECURSIVE forEachCallback(_, _, _, _)
forEachCallback(G, cbs, data, n) ==
    IF cbs = {} THEN G
    ELSE LET c == CHOOSE x \in cbs : \A y \in cbs : x <= y
         IN  forEachCallback(onLaserResponse(G, c, data, n),
                             cbs \ {c}, data, n)

dataHandler(G, buf, n) ==
    LET G1 == [G EXCEPT !.udpRelay = relayData(@, buf)]
    IN  forEachCallback(G1, G1.udpRelay.callbacks, buf, n)

----------------------------------------------------------------------------
(* TcpServer *)

processConnection(G, c) ==
    handleConnection([G EXCEPT !.currentConnection = c,
                               !.isProcessingConnection = TRUE], c)

processNextConnection_keepHead(G) ==
    LET G1 == [G EXCEPT !.connectionQueue =
                   SelectSeq(@, LAMBDA x : ~Closed(x))]
    IN  IF Len(G1.connectionQueue) > 0 /\ ~G1.isProcessingConnection
        THEN processConnection(G1, Head(G1.connectionQueue))
        ELSE G1

processNextConnection_lifo(G) ==
    LET G1 == [G EXCEPT !.connectionQueue =
                   SelectSeq(@, LAMBDA x : ~Closed(x))]
        q == G1.connectionQueue
    IN  IF Len(q) > 0 /\ ~G1.isProcessingConnection
        THEN processConnection(
               [G1 EXCEPT !.connectionQueue = SubSeq(q, 1, Len(q) - 1)],
               q[Len(q)])
        ELSE G1

processNextConnection_noFilter(G) ==
    IF Len(G.connectionQueue) > 0 /\ ~G.isProcessingConnection
    THEN processConnection([G EXCEPT !.connectionQueue = Tail(@)],
                           Head(G.connectionQueue))
    ELSE G

RECURSIVE processNextConnection(_)
processNextConnection(G) ==
    LET G1 == [G EXCEPT !.connectionQueue =
                   SelectSeq(@, LAMBDA x : ~Closed(x))]
    IN  IF Len(G1.connectionQueue) > 0 /\ ~G1.isProcessingConnection
        THEN LET nextSocket == Head(G1.connectionQueue)
                 G2 == [G1 EXCEPT !.connectionQueue = Tail(@)]
             IN  IF ~Closed(nextSocket)
                 THEN processConnection(G2, nextSocket)
                 ELSE processNextConnection(G2)
        ELSE G1

handleNewConnection_unshift(G, c) ==
    IF G.isProcessingConnection \/ G.currentConnection # NoConn
    THEN [G EXCEPT !.connectionQueue = <<c>> \o @]
    ELSE processConnection(G, c)

handleNewConnection(G, c) ==
    IF G.isProcessingConnection \/ G.currentConnection # NoConn
    THEN [G EXCEPT !.connectionQueue = Append(@, c)]
    ELSE processConnection(G, c)

indexOf(q, c) ==
    IF \E i \in 1..Len(q) : q[i] = c
    THEN CHOOSE i \in 1..Len(q) :
            q[i] = c /\ \A j \in 1..(i - 1) : q[j] # c
    ELSE -1

splice_toEnd(q, i) == SubSeq(q, 1, i - 1)

splice(q, i) == SubSeq(q, 1, i - 1) \o SubSeq(q, i + 1, Len(q))

handleSocketClosed_noWake(G, c) ==
    LET G1 == cleanupConnection(G, c)
        queueIndex == indexOf(G1.connectionQueue, c)
        G2 == IF queueIndex # -1
              THEN [G1 EXCEPT !.connectionQueue = splice(@, queueIndex)]
              ELSE G1
    IN  IF G2.currentConnection = c
        THEN [G2 EXCEPT !.currentConnection = NoConn,
                        !.isProcessingConnection = FALSE]
        ELSE G2

handleSocketClosed(G, c) ==
    LET G1 == cleanupConnection(G, c)
        queueIndex == indexOf(G1.connectionQueue, c)
        G2 == IF queueIndex # -1
              THEN [G1 EXCEPT !.connectionQueue = splice(@, queueIndex)]
              ELSE G1
    IN  IF G2.currentConnection = c
        THEN processNextConnection(
               [G2 EXCEPT !.currentConnection = NoConn,
                          !.isProcessingConnection = FALSE])
        ELSE G2

getConnectionStats(G) ==
    [G EXCEPT !.connectionQueue = SelectSeq(@, LAMBDA x : ~Closed(x))]

connectionStats(G) ==
    [current |-> IF G.currentConnection # NoConn THEN 1 ELSE 0,
     queued |-> Len(G.connectionQueue),
     processing |-> G.isProcessingConnection]

RECURSIVE endAll(_, _)
endAll(G, q) ==
    IF q = <<>> THEN G ELSE endAll(socketEnd(G, Head(q)), Tail(q))

tcpStop(G) ==
    LET G1 == IF G.currentConnection # NoConn
              THEN socketEnd(G, G.currentConnection)
              ELSE G
    IN  [endAll(G1, G1.connectionQueue) EXCEPT !.connectionQueue = <<>>]

----------------------------------------------------------------------------
(* The state a callback starts from, and the state it leaves behind *)

Enter ==
    [currentConnection |-> currentConnection,
     connectionQueue |-> connectionQueue,
     isProcessingConnection |-> isProcessingConnection,
     connectionStates |-> connectionStates,
     intervals |-> intervals,
     udpRelay |-> [udpRelay EXCEPT !.wire = <<>>, !.uncaught = FALSE],
     writes |-> <<>>, offered |-> <<>>, ended |-> {}, dispatched |-> <<>>]

EndSockets(G, base) ==
    [c \in Conns |-> IF c \in G.ended /\ base[c] = "open"
                     THEN "ended" ELSE base[c]]

----------------------------------------------------------------------------
(* Inputs *)

BigPayload == [i \in 1..2998 |-> (i * 7) % 256]

Envelope(type, payload) == header(type, Len(payload)) \o payload

Envelopes ==
    {Envelope(Laser, <<1>>), Envelope(Laser, <<2, 3>>),
     Envelope(Laser, BigPayload), Envelope(Ping, <<7>>)}

UdpInputs ==
    {<<ACK_SUCCESS>>, <<ACK_ERROR>>, <<ACK_CHECKSUM_MATCH>>,
     <<ACK_CHECKSUM_FAIL>>, <<0, 1, 1>>}

ReadSizes == {3}

WriteResults == {FullWrite, 2}

NoStats == [current |-> -1, queued |-> -1, processing |-> FALSE]

Event(G, op, c, arg, stats) ==
    [op |-> op, conn |-> c, arg |-> arg, stats |-> stats,
     busy |-> ~udpRelay.gotAck,
     outstandingBefore |-> <<udpRelay.outstanding.kind,
                             udpRelay.outstanding.index>>,
     activeBefore |-> currentConnection,
     queueBefore |-> connectionQueue,
     writes |-> G.writes, offered |-> G.offered, ended |-> G.ended,
     dispatched |-> G.dispatched]

Commit(G, op, c, arg, stats) ==
    /\ currentConnection' = G.currentConnection
    /\ connectionQueue' = G.connectionQueue
    /\ isProcessingConnection' = G.isProcessingConnection
    /\ connectionStates' = G.connectionStates
    /\ intervals' = G.intervals
    /\ udpRelay' = G.udpRelay
    /\ ev' = Event(G, op, c, arg, stats)

PendingBounded ==
    \A c \in DOMAIN connectionStates :
        /\ Len(connectionStates[c].pendingWrites) < MaxPendingWrites
        /\ Len(connectionStates[c].packet) <= MaxBuffered

----------------------------------------------------------------------------
(* Actions: one per callback of the event loop *)

Init ==
    /\ currentConnection = NoConn
    /\ connectionQueue = <<>>
    /\ isProcessingConnection = FALSE
    /\ connectionStates = <<>>
    /\ intervals = {}
    /\ udpRelay = InitRelay
    /\ sockets = [c \in Conns |-> "idle"]
    /\ inflight = [c \in Conns |-> <<>>]
    /\ phase = "constructed"
    /\ ev = Event(Enter, "init", NoConn, <<>>, NoStats)

\* RuidaBridgeApp.start
start ==
    /\ phase = "constructed"
    /\ phase' = "started"
    /\ Commit([Enter EXCEPT !.udpRelay = relayStart(@)],
              "start", NoConn, <<>>, NoStats)
    /\ UNCHANGED <<sockets, inflight>>

\* RuidaBridgeApp.stop
stop ==
    /\ phase = "started"
    /\ phase' = "stopped"
    /\ LET G == [tcpStop(Enter) EXCEPT !.udpRelay = relayStop(@)]
       IN  /\ Commit(G, "stop", NoConn, <<>>, NoStats)
           /\ sockets' = EndSockets(G, sockets)
    /\ UNCHANGED inflight

\* Bun.listen socket.open
open(c) ==
    /\ phase = "started"
    /\ sockets[c] = "idle"
    /\ sockets' = [sockets EXCEPT ![c] = "open"]
    /\ Commit(handleNewConnection(Enter, c), "open", c, <<>>, NoStats)
    /\ UNCHANGED <<inflight, phase>>

\* the client writes an envelope once its previous one has been read
clientWrite(c, e) ==
    /\ sockets[c] \in {"open", "ended"}
    /\ inflight[c] = <<>>
    /\ inflight' = [inflight EXCEPT ![c] = e]
    /\ Commit(Enter, "clientWrite", c, e, NoStats)
    /\ UNCHANGED <<sockets, phase>>

data_anySocket(c, k, n) ==
    /\ sockets[c] \in {"open", "ended"}
    /\ k \in 1..Len(inflight[c])
    /\ PendingBounded
    /\ LET chunk == SubSeq(inflight[c], 1, k)
           rest == SubSeq(inflight[c], k + 1, Len(inflight[c]))
       IN  /\ inflight' = [inflight EXCEPT ![c] = rest]
           /\ Commit(IF currentConnection # NoConn
                     THEN handleData(Enter, currentConnection, chunk, n)
                     ELSE Enter,
                     "data", c, chunk, NoStats)
    /\ UNCHANGED <<sockets, phase>>

\* Bun.listen socket.data: one TCP read of k bytes
data(c, k, n) ==
    /\ sockets[c] \in {"open", "ended"}
    /\ k \in 1..Len(inflight[c])
    /\ PendingBounded
    /\ LET chunk == SubSeq(inflight[c], 1, k)
           rest == SubSeq(inflight[c], k + 1, Len(inflight[c]))
       IN  /\ inflight' = [inflight EXCEPT ![c] = rest]
           /\ Commit(IF currentConnection = c
                     THEN handleData(Enter, c, chunk, n)
                     ELSE Enter,
                     "data", c, chunk, NoStats)
    /\ UNCHANGED <<sockets, phase>>

\* the runtime marks the socket closed (peer hung up, or end() completed)
socketClosed(c) ==
    /\ sockets[c] \in {"open", "ended"}
    /\ sockets' = [sockets EXCEPT ![c] = "closed"]
    /\ inflight' = [inflight EXCEPT ![c] = <<>>]
    /\ Commit(Enter, "socketClosed", c, <<>>, NoStats)
    /\ UNCHANGED phase

\* Bun.listen socket.close
close(c) ==
    /\ sockets[c] = "closed"
    /\ sockets' = [sockets EXCEPT ![c] = "done"]
    /\ Commit(handleSocketClosed(Enter, c), "close", c, <<>>, NoStats)
    /\ UNCHANGED <<inflight, phase>>

\* Bun.listen socket.drain: the socket is writable again after a short write
drain(c) ==
    /\ sockets[c] \in {"open", "ended"}
    /\ c \in DOMAIN connectionStates
    /\ ~connectionStates[c].canWrite
    /\ Commit(Enter, "drain", c, <<>>, NoStats)
    /\ UNCHANGED <<sockets, inflight, phase>>

\* Bun.listen socket.error
socketError(c) ==
    /\ sockets[c] \in {"open", "ended"}
    /\ Commit(Enter, "error", c, <<>>, NoStats)
    /\ UNCHANGED <<sockets, inflight, phase>>

\* a caller invokes ConnectionHandler.handleDrain
drained(c, n) ==
    /\ sockets[c] \in {"open", "ended"}
    /\ Commit(handleDrain(Enter, c, n), "handleDrain", c, <<>>, NoStats)
    /\ UNCHANGED <<sockets, inflight, phase>>

\* UDP socket data callback
udpData(buf, n) ==
    /\ udpRelay.socket
    /\ PendingBounded
    /\ buf = <<ACK_ERROR>> => udpRelay.retryTimers < MaxRetryTimers
    /\ Commit(dataHandler(Enter, buf, n), "udpData", NoConn, buf, NoStats)
    /\ UNCHANGED <<sockets, inflight, phase>>

\* a caller invokes UdpRelay.sendToLaser
send(p) ==
    /\ Commit([Enter EXCEPT !.udpRelay = sendToLaser(@, p),
                            !.dispatched = Append(@, p)],
              "send", NoConn, p, NoStats)
    /\ UNCHANGED <<sockets, inflight, phase>>

\* setTimeout callback armed by the ACK_ERROR branch
retryTimer ==
    /\ udpRelay.retryTimers > 0
    /\ Commit([Enter EXCEPT !.udpRelay = retryFirstChunk(@)],
              "retryTimer", NoConn, <<>>, NoStats)
    /\ UNCHANGED <<sockets, inflight, phase>>

\* setTimeout callback armed by sendHandshake
handshakeTimer ==
    /\ udpRelay.handshakeTimers > 0
    /\ Commit([Enter EXCEPT !.udpRelay = handshakeTimeout(@)],
              "handshakeTimer", NoConn, <<>>, NoStats)
    /\ UNCHANGED <<sockets, inflight, phase>>

\* setInterval callback armed by startKeepalive
keepalive ==
    /\ udpRelay.keepaliveTimers > 0
    /\ Commit([Enter EXCEPT !.udpRelay = keepaliveTick(@)],
              "keepalive", NoConn, <<>>, NoStats)
    /\ UNCHANGED <<sockets, inflight, phase>>

\* the clock passes lastTime + LASER_TIMEOUT for connection c
timePasses(c) ==
    /\ c \in DOMAIN connectionStates
    /\ ~connectionStates[c].late
    /\ Commit(setState(Enter, c, [connectionStates[c] EXCEPT !.late = TRUE]),
              "timePasses", c, <<>>, NoStats)
    /\ UNCHANGED <<sockets, inflight, phase>>

\* setInterval callback armed by handleConnection
timeoutTimer(c) ==
    /\ c \in intervals
    /\ LET G == timeoutCheck(Enter, c)
       IN  /\ Commit(G, "timeoutTimer", c, <<>>, NoStats)
           /\ sockets' = EndSockets(G, sockets)
    /\ UNCHANGED <<inflight, phase>>

\* health endpoint: RuidaBridgeApp.getStatusData
getStatusData ==
    /\ phase = "started"
    /\ LET G == getConnectionStats(Enter)
       IN  Commit(G, "getStatusData", NoConn, <<>>, connectionStats(G))
    /\ UNCHANGED <<sockets, inflight, phase>>

(* Session manager under accept / data / close / timeout / shutdown events *)

SessionEnvelopes == {Envelope(Laser, <<1>>)}

SessionUdpInputs == {<<ACK_SUCCESS>>}

NextSessions ==
    \/ start
    \/ stop
    \/ \E c \in Conns : open(c)
    \/ \E c \in Conns, e \in SessionEnvelopes : clientWrite(c, e)
    \/ \E c \in Conns : data(c, Len(inflight[c]), FullWrite)
    \/ \E c \in Conns : socketClosed(c)
    \/ \E c \in Conns : close(c)
    \/ \E buf \in SessionUdpInputs : udpData(buf, FullWrite)
    \/ \E c \in Conns : timePasses(c)
    \/ \E c \in Conns : timeoutTimer(c)
    \/ getStatusData

SpecSessions == Init /\ [][NextSessions]_vars

(* The transport alone, driven by its callers, the controller and timers *)

RelayPayloads == {<<1>>, BigPayload}

NextRelay ==
    \/ start
    \/ stop
    \/ \E p \in RelayPayloads : send(p)
    \/ \E buf \in UdpInputs : udpData(buf, FullWrite)
    \/ retryTimer
    \/ handshakeTimer
    \/ keepalive

SpecRelay == Init /\ [][NextRelay]_vars

(* Clients driving the transport through the session manager *)

NumBridgeConns == 1

BridgeConns == 1..NumBridgeConns

BridgeEnvelopes == {Envelope(Laser, <<1>>), Envelope(Laser, <<2, 3>>)}

BridgeUdpInputs == {<<ACK_SUCCESS>>, <<ACK_CHECKSUM_FAIL>>, <<0, 1, 1>>}

NextBridge ==
    \/ start
    \/ \E c \in BridgeConns : open(c)
    \/ \E c \in BridgeConns, e \in BridgeEnvelopes : clientWrite(c, e)
    \/ \E c \in BridgeConns :
          \E k \in ReadSizes \cup {Len(inflight[c])} :
             data(c, k, FullWrite)
    \/ \E c \in BridgeConns : socketClosed(c)
    \/ \E c \in BridgeConns : close(c)
    \/ \E buf \in BridgeUdpInputs : udpData(buf, FullWrite)

SpecBridge == Init /\ [][NextBridge]_vars

(* One client's byte stream through the envelope parser to the transport *)

ParserConns == {1}

Unknown == 90

ParserEnvelopes ==
    {Envelope(Laser, <<2, 3>>), Envelope(Ping, <<7>>), Envelope(Ping, <<>>),
     Envelope(Unknown, <<9>>)}

ParserUdpInputs == {<<ACK_SUCCESS>>}

NextParser ==
    \/ start
    \/ \E c \in ParserConns : open(c)
    \/ \E c \in ParserConns, e \in ParserEnvelopes : clientWrite(c, e)
    \/ \E c \in ParserConns :
          \E k \in 1..Len(inflight[c]), n \in WriteResults : data(c, k, n)
    \/ \E c \in ParserConns : socketClosed(c)
    \/ \E c \in ParserConns : close(c)
    \/ \E buf \in ParserUdpInputs, n \in WriteResults : udpData(buf, n)
    \/ \E c \in ParserConns : drain(c)

SpecParser == Init /\ [][NextParser]_vars

(* One client and a controller that rejects datagrams *)

RecoveryConns == {1}

RecoveryEnvelopes == {Envelope(Laser, <<2, 3>>)}

RecoveryUdpInputs == {<<ACK_SUCCESS>>, <<ACK_ERROR>>}

NextRecovery ==
    \/ start
    \/ \E c \in RecoveryConns : open(c)
    \/ \E c \in RecoveryConns, e \in RecoveryEnvelopes : clientWrite(c, e)
    \/ \E c \in RecoveryConns : data(c, Len(inflight[c]), FullWrite)
    \/ \E c \in RecoveryConns : socketClosed(c)
    \/ \E c \in RecoveryConns : close(c)
    \/ \E buf \in RecoveryUdpInputs : udpData(buf, FullWrite)
    \/ retryTimer
    \/ \E c \in RecoveryConns : timePasses(c)
    \/ \E c \in RecoveryConns : timeoutTimer(c)

SpecRecovery == Init /\ [][NextRecovery]_vars

(* The write path of one session: controller responses, short writes and
   handleDrain *)

WriterConns == {1}

WriterUdpInputs == {<<ACK_SUCCESS>>, <<0, 1, 1>>}

WriterEnvelopes == {Envelope(Ping, <<7>>)}

NextWriter ==
    \/ start
    \/ \E c \in WriterConns : open(c)
    \/ \E c \in WriterConns, e \in WriterEnvelopes : clientWrite(c, e)
    \/ \E c \in WriterConns, n \in WriteResults :
          data(c, Len(inflight[c]), n)
    \/ \E buf \in WriterUdpInputs, n \in WriteResults : udpData(buf, n)
    \/ \E c \in WriterConns, n \in WriteResults : drained(c, n)
    \/ \E c \in WriterConns : socketClosed(c)
    \/ \E c \in WriterConns : close(c)

SpecWriter == Init /\ [][NextWriter]_vars

(* Two clients, controller responses and socket errors *)

DeliveryConns == {1, 2}

DeliveryEnvelopes == {Envelope(Laser, <<1>>)}

DeliveryUdpInputs == {<<ACK_SUCCESS>>, <<0, 1, 1>>}

NextDelivery ==
    \/ start
    \/ \E c \in DeliveryConns : open(c)
    \/ \E c \in DeliveryConns, e \in DeliveryEnvelopes : clientWrite(c, e)
    \/ \E c \in DeliveryConns : data(c, Len(inflight[c]), FullWrite)
    \/ \E c \in DeliveryConns : socketClosed(c)
    \/ \E c \in DeliveryConns : close(c)
    \/ \E buf \in DeliveryUdpInputs, n \in WriteResults : udpData(buf, n)
    \/ \E c \in DeliveryConns : socketError(c)

SpecDelivery == Init /\ [][NextDelivery]_vars

(* One client that writes two envelopes back to back *)

PipelineConns == {1}

PipelinePairs ==
    {<<Envelope(Ping, <<7>>), Envelope(Laser, <<2, 3>>)>>,
     <<Envelope(Unknown, <<9>>), Envelope(Ping, <<7>>)>>,
     <<Envelope(Ping, <<7>>), Envelope(Ping, <<7>>)>>}

PipelineWrites == {pr[1] \o pr[2] : pr \in PipelinePairs}

PipelineUdpInputs == {<<ACK_SUCCESS>>}

NextPipeline ==
    \/ start
    \/ \E c \in PipelineConns : open(c)
    \/ \E c \in PipelineConns, w \in PipelineWrites : clientWrite(c, w)
    \/ \E c \in PipelineConns :
          \E k \in 1..Len(inflight[c]) : data(c, k, FullWrite)
    \/ \E c \in PipelineConns : socketClosed(c)
    \/ \E c \in PipelineConns : close(c)
    \/ \E buf \in PipelineUdpInputs : udpData(buf, FullWrite)

SpecPipeline == Init /\ [][NextPipeline]_vars

(* One client that sends a payload too large for one datagram *)

LargeConns == {1}

LargeEnvelopes == {Envelope(Laser, <<1>>), Envelope(Laser, BigPayload)}

LargeUdpInputs == {<<ACK_SUCCESS>>, <<0, 1, 1>>}

NextLarge ==
    \/ start
    \/ \E c \in LargeConns : open(c)
    \/ \E c \in LargeConns, e \in LargeEnvelopes : clientWrite(c, e)
    \/ \E c \in LargeConns : data(c, Len(inflight[c]), FullWrite)
    \/ \E c \in LargeConns : socketClosed(c)
    \/ \E c \in LargeConns : close(c)
    \/ \E buf \in LargeUdpInputs : udpData(buf, FullWrite)

SpecLarge == Init /\ [][NextLarge]_vars

(* Datagram construction: payloads of every shape through sendToLaser, each
   datagram acknowledged *)

SampleBytes == {0, 1, 119, 128, 246, 255}

Pay(n) == [i \in 1..n |-> (i * 7) % 256]

DatagramPayloads ==
    {<<>>} \cup {<<a>> : a \in SampleBytes}
           \cup {<<a, b>> : a \in SampleBytes, b \in SampleBytes}
           \cup {Pay(1470), Pay(1471), Pay(2942), Pay(2998)}

DatagramUdpInputs == {<<ACK_SUCCESS>>}

NextDatagram ==
    \/ start
    \/ \E p \in DatagramPayloads : send(p)
    \/ \E buf \in DatagramUdpInputs : udpData(buf, FullWrite)

SpecDatagram == Init /\ [][NextDatagram]_vars

(* The byte codec alone: every byte value through encodeBytes *)

InitCodec ==
    /\ currentConnection = NoConn
    /\ connectionQueue = <<>>
    /\ isProcessingConnection = FALSE
    /\ connectionStates = <<>>
    /\ intervals = {}
    /\ udpRelay = InitRelay
    /\ sockets = [c \in Conns |-> "idle"]
    /\ inflight = [c \in Conns |-> <<>>]
    /\ phase = "constructed"
    /\ \E b \in 0..255 : ev = Event(Enter, "input", NoConn, <<b>>, NoStats)

\* UdpRelay.encodeBytes on the input buffer
encode ==
    /\ ev.op = "input"
    /\ ev' = [ev EXCEPT !.op = "encodeBytes",
                        !.arg = encodeBytes(ev.arg, MAGIC),
                        !.dispatched = <<ev.arg>>]
    /\ UNCHANGED <<currentConnection, connectionQueue,
                   isProcessingConnection, connectionStates, intervals,
                   udpRelay, sockets, inflight, phase>>

NextCodec == encode

SpecCodec == InitCodec /\ [][NextCodec]_vars

----------------------------------------------------------------------------
(* Properties *)

Range(q) == {q[i] : i \in 1..Len(q)}

Pos(q, c) == CHOOSE i \in 1..Len(q) : q[i] = c

OpenOnly(q) == SelectSeq(q, LAMBDA x : ~Closed(x))

\* C1: at most one connection is active (holds a session with the
\* transport) and the active connection is never also waiting in the queue.
C1_SingleActive ==
    /\ currentConnection # NoConn =>
          currentConnection \notin Range(connectionQueue)
    /\ Cardinality(DOMAIN connectionStates) <= 1
    /\ DOMAIN connectionStates \subseteq {currentConnection}

C1_Witness ==
    /\ currentConnection # NoConn
    /\ Len(connectionQueue) = 2
    /\ DOMAIN connectionStates = {currentConnection}

\* C2: a Data envelope is handed to the transport only on behalf of the
\* connection that is active when it arrives (so never for a queued B while
\* A is active), and the health data reports current = 1 for an occupied
\* slot and queued = the number of connections waiting (1 while only B waits).
C2_QueuedNeverDispatches ==
    /\ (ev.op = "data" /\ ev.dispatched # <<>>) =>
          (ev.conn = ev.activeBefore /\ ev.conn = currentConnection)
    /\ ev.op = "getStatusData" =>
          /\ ev.stats.current = (IF currentConnection # NoConn THEN 1 ELSE 0)
          /\ ev.stats.queued =
                Cardinality({c \in Conns : /\ sockets[c] \in {"open", "ended"}
                                           /\ c # currentConnection})

C2_Witness ==
    /\ ev.op = "data"
    /\ currentConnection # NoConn
    /\ ev.conn # currentConnection
    /\ ev.conn \in Range(connectionQueue)
    /\ ev.arg = Envelope(Laser, <<1>>)
    /\ ev.dispatched = <<>>

\* C3: connections are activated in the order they were queued: a queued
\* connection is activated only when every entry ahead of it is closed, a
\* step never reorders the waiting connections, and a newly queued
\* connection goes behind all of them.
C3_Fifo ==
    [][/\ \A c \in Conns :
            (/\ currentConnection' = c
             /\ currentConnection # c
             /\ c \in Range(connectionQueue))
            => \A j \in 1..(Pos(connectionQueue, c) - 1) :
                   Closed(connectionQueue[j])
       /\ \A a, b \in Range(connectionQueue) \cap Range(connectionQueue') :
            Pos(connectionQueue, a) < Pos(connectionQueue, b)
            => Pos(connectionQueue', a) < Pos(connectionQueue', b)
       /\ \A c \in Range(connectionQueue') \ Range(connectionQueue) :
            Pos(connectionQueue', c) = Len(connectionQueue')]_vars

C3_Witness ==
    /\ ev.op = "close"
    /\ ev.activeBefore = ev.conn
    /\ Len(ev.queueBefore) >= 2
    /\ ~Closed(ev.queueBefore[1])
    /\ ~Closed(ev.queueBefore[2])
    /\ currentConnection = ev.queueBefore[1]
    /\ connectionQueue = Tail(ev.queueBefore)

\* C4: an accepted connection becomes active at once, leaving the queue
\* alone, when no connection is active; otherwise it is appended at the
\* tail of the queue and the active connection stays.
C4_Accept ==
    [][\A c \in Conns :
          (sockets[c] = "idle" /\ sockets'[c] = "open") =>
             IF currentConnection = NoConn
             THEN /\ currentConnection' = c
                  /\ connectionQueue' = connectionQueue
             ELSE /\ connectionQueue' = Append(connectionQueue, c)
                  /\ currentConnection' = currentConnection]_vars

C4_Witness ==
    /\ ev.op = "open"
    /\ ev.activeBefore # NoConn
    /\ Len(ev.queueBefore) >= 1
    /\ connectionQueue = Append(ev.queueBefore, ev.conn)
    /\ currentConnection = ev.activeBefore

\* C5: when the active connection's close is handled, the slot passes in
\* that step to the first queued connection that is still open, the closed
\* entries are dropped from the queue, and the slot is left empty when no
\* queued connection is open.
C5_CloseActive ==
    [][\A c \in Conns :
          (/\ sockets[c] = "closed"
           /\ sockets'[c] = "done"
           /\ currentConnection = c) =>
             LET openq == OpenOnly(connectionQueue)
             IN  IF openq = <<>>
                 THEN /\ currentConnection' = NoConn
                      /\ connectionQueue' = <<>>
                 ELSE /\ currentConnection' = Head(openq)
                      /\ sockets'[Head(openq)] = "open"
                      /\ connectionQueue' = Tail(openq)
                      /\ Head(openq) \in DOMAIN connectionStates']_vars

C5_Witness ==
    /\ ev.op = "close"
    /\ ev.activeBefore = ev.conn
    /\ Len(ev.queueBefore) >= 2
    /\ Closed(ev.queueBefore[1])
    /\ currentConnection = ev.queueBefore[2]
    /\ ev.queueBefore[1] \notin Range(connectionQueue)

\* C6: a sendToLaser call made while the transport awaits an ack sends no
\* datagram and leaves the fragment list, the fragment index, the retry
\* counter and the ack-wait flag as they were.
C6_BusySendIsNoOp ==
    [][(ev'.op = "send" /\ ~udpRelay.gotAck) =>
          /\ udpRelay'.wire = <<>>
          /\ udpRelay'.pendingFragments = udpRelay.pendingFragments
          /\ udpRelay'.currentFragmentIndex = udpRelay.currentFragmentIndex
          /\ udpRelay'.retryCount = udpRelay.retryCount
          /\ udpRelay'.gotAck = udpRelay.gotAck]_vars

C6_Witness ==
    /\ ev.op = "send"
    /\ ev.busy
    /\ ev.arg = <<1>>
    /\ udpRelay.isStarted
    /\ udpRelay.wire = <<>>
    /\ Len(udpRelay.pendingFragments) = 3
    /\ udpRelay.currentFragmentIndex = 1
    /\ ~udpRelay.gotAck

Buffered(c, p) ==
    /\ c \in DOMAIN connectionStates
    /\ \E i \in 0..(Len(connectionStates[c].packet) - Len(p)) :
          SubSeq(connectionStates[c].packet, i + 1, i + Len(p)) = p

\* C7: a Data payload handed to the transport while the transport awaits an
\* ack is not lost: the send is refused and the connection still holds the
\* payload, so that it can go out once the transport is idle.
C7_BusyPayloadRetained ==
    (ev.op = "data" /\ ev.dispatched # <<>> /\ ev.busy) =>
        \A i \in 1..Len(ev.dispatched) :
            \/ \E j \in 1..Len(udpRelay.wire) :
                  udpRelay.wire[j].bytes = udpPacket(ev.dispatched[i])
            \/ Buffered(ev.conn, ev.dispatched[i])

\* C8: bytes read from the active connection while its ack-wait flag is set
\* are held: they are appended to its reassembly buffer, to be parsed in
\* arrival order once the flag clears.
C8_BytesHeldDuringAckWait ==
    [][\A c \in Conns :
          (/\ ev'.op = "data"
           /\ ev'.conn = c
           /\ currentConnection = c
           /\ c \in DOMAIN connectionStates
           /\ ~connectionStates[c].gotAck)
          => /\ c \in DOMAIN connectionStates'
             /\ connectionStates'[c].packet =
                   connectionStates[c].packet \o ev'.arg]_vars

FragmentsSent(w) == {w[i] : i \in {j \in 1..Len(w) : w[j].kind = "fragment"}}

\* C9: the fragment index moves only by one, on a success ack; fragment
\* k+1 goes out only in the handling of a success ack that arrives while
\* fragment k is the datagram outstanding; and the fragments go out in
\* increasing index order, none skipped (fragment 0 alone may be repeated,
\* while it is the outstanding one).
C9_FragmentOrder ==
    [][/\ udpRelay'.currentFragmentIndex > udpRelay.currentFragmentIndex =>
            /\ ev'.op = "udpData"
            /\ ev'.arg = <<ACK_SUCCESS>>
            /\ udpRelay'.currentFragmentIndex =
                  udpRelay.currentFragmentIndex + 1
       /\ \A d \in FragmentsSent(udpRelay'.wire) :
            IF d.index >= 1
            THEN /\ ev'.op = "udpData"
                 /\ ev'.arg = <<ACK_SUCCESS>>
                 /\ udpRelay.outstanding.kind = "fragment"
                 /\ udpRelay.outstanding.index = d.index - 1
                 /\ udpRelay.currentFragmentIndex = d.index - 1
            ELSE \/ ev'.op \in {"send", "data"}
                 \/ /\ udpRelay.outstanding.kind = "fragment"
                    /\ udpRelay.outstanding.index = 0]_vars

\* C10: an error ack that arrives while the first datagram of a
\* transmission (a single datagram, or fragment 0) is outstanding and
\* retries remain keeps the transport awaiting and arms the retry, and the
\* retry transmits that same datagram again.
C10_RetryResendsFirstDatagram ==
    [][/\ (/\ ev'.op = "udpData"
           /\ ev'.arg = <<ACK_ERROR>>
           /\ ~udpRelay.gotAck
           /\ udpRelay.outstanding.kind \in {"data", "fragment"}
           /\ udpRelay.outstanding.index = 0
           /\ udpRelay.retryCount < maxRetries)
          => /\ ~udpRelay'.gotAck
             /\ udpRelay'.retryTimers = udpRelay.retryTimers + 1
       /\ (/\ ev'.op = "retryTimer"
           /\ ev.op = "udpData"
           /\ ev.arg = <<ACK_ERROR>>
           /\ ev.busy
           /\ ~udpRelay.gotAck
           /\ udpRelay.outstanding.kind \in {"data", "fragment"}
           /\ udpRelay.outstanding.index = 0)
          => /\ Len(udpRelay'.wire) = 1
             /\ udpRelay'.wire[1].bytes = udpRelay.outstanding.bytes
             /\ ~udpRelay'.gotAck]_vars

\* C11: retries are bounded.  The first datagram of one transmission goes
\* out at most 1 + maxRetries times; an error ack that arrives at fragment
\* index 0 once the retry budget is used up aborts the transmission (no
\* pending fragment, index and retry counter 0, ack-wait cleared, nothing
\* sent); and while no fragment is pending only a new send puts a fragment
\* on the wire.
C11_RetriesBounded ==
    [][/\ udpRelay'.firstSent <= 1 + maxRetries
       /\ (/\ ev'.op = "udpData"
           /\ ev'.arg = <<ACK_ERROR>>
           /\ udpRelay.currentFragmentIndex = 0
           /\ udpRelay.retryCount >= maxRetries)
          => /\ udpRelay'.pendingFragments = <<>>
             /\ udpRelay'.currentFragmentIndex = 0
             /\ udpRelay'.retryCount = 0
             /\ udpRelay'.gotAck
             /\ udpRelay'.wire = <<>>
             /\ udpRelay'.retryTimers = udpRelay.retryTimers
       /\ (udpRelay.pendingFragments = <<>> /\ ev'.op \notin {"send", "data"})
          => FragmentsSent(udpRelay'.wire) = {}]_vars

\* C12: an error ack that arrives while a fragment of index >= 1 is the
\* outstanding one retransmits nothing and arms no retry: the transmission
\* is aborted in that same step, the remaining fragments are discarded and
\* the ack-wait is cleared.
C12_LaterFragmentAborts ==
    [][(/\ ev'.op = "udpData"
        /\ ev'.arg = <<ACK_ERROR>>
        /\ udpRelay.currentFragmentIndex >= 1
        /\ udpRelay.outstanding.kind = "fragment"
        /\ udpRelay.outstanding.index >= 1)
       => /\ udpRelay'.wire = <<>>
          /\ udpRelay'.retryTimers = udpRelay.retryTimers
          /\ udpRelay'.pendingFragments = <<>>
          /\ udpRelay'.currentFragmentIndex = 0
          /\ udpRelay'.retryCount = 0
          /\ udpRelay'.gotAck]_vars

C12_Witness ==
    /\ ev.op = "udpData"
    /\ ev.arg = <<ACK_ERROR>>
    /\ ev.busy
    /\ ev.outstandingBefore = <<"fragment", 1>>
    /\ udpRelay.wire = <<>>
    /\ udpRelay.pendingFragments = <<>>
    /\ udpRelay.gotAck

\* the bytes of the envelope in progress that the parser has taken in
Acc(st) ==
    IF st.packetLen > 0
    THEN header(st.packetType, st.packetLen) \o st.packet
    ELSE st.packet

Payload(e) == SubSeq(e, 4, Len(e))

OnWire(u, p) == \E j \in 1..Len(u.wire) : u.wire[j].bytes = udpPacket(p)

\* a read on the active connection c, ack-wait clear, that delivers bytes
\* of the envelope e whose earlier bytes (if any) the parser holds
Reads(c, e) ==
    /\ ev'.op = "data"
    /\ ev'.conn = c
    /\ currentConnection = c
    /\ c \in DOMAIN connectionStates
    /\ connectionStates[c].gotAck
    /\ Acc(connectionStates[c]) \o inflight[c] = e

Completes(c, e) == Reads(c, e) /\ inflight'[c] = <<>>

VersionReply == <<Ping, 0, 2>> \o version

\* C13: once a transmission has been aborted by an error ack, the next Data
\* envelope that reaches the still-open active connection is parsed and
\* transmitted to the controller.
C13_TrafficResumesAfterAbort ==
    [][\A c \in Conns, e \in RecoveryEnvelopes :
          (/\ ev.op = "udpData"
           /\ ev.arg = <<ACK_ERROR>>
           /\ ev.busy
           /\ ev.outstandingBefore[1] = "data"
           /\ udpRelay.gotAck
           /\ ev'.op = "data"
           /\ ev'.conn = c
           /\ ev'.arg = e
           /\ currentConnection = c
           /\ c \in DOMAIN connectionStates
           /\ Acc(connectionStates[c]) = <<>>
           /\ sockets[c] = "open")
          => /\ ev'.dispatched = <<Payload(e)>>
             /\ OnWire(udpRelay', Payload(e))]_vars

\* C14: a Data envelope delivered to the active connection (ack-wait clear)
\* in any number of reads is dispatched exactly once, by the read that
\* completes it, with exactly its declared payload; the earlier reads
\* dispatch nothing and only accumulate.
C14_Reassembly ==
    [][\A c \in Conns, e \in ParserEnvelopes :
          (Reads(c, e) /\ e[1] = Laser) =>
             IF inflight'[c] = <<>>
             THEN /\ ev'.dispatched = <<Payload(e)>>
                  /\ ev'.busy \/ OnWire(udpRelay', Payload(e))
                  /\ Len(udpRelay'.wire) <= 1
                  /\ Acc(connectionStates'[c]) = <<>>
             ELSE /\ ev'.dispatched = <<>>
                  /\ udpRelay'.wire = <<>>
                  /\ c \in DOMAIN connectionStates'
                  /\ connectionStates'[c].gotAck
                  /\ Acc(connectionStates'[c]) \o inflight'[c] = e]_vars

C14_Witness ==
    /\ ev.op = "data"
    /\ ev.arg = <<3>>
    /\ ev.conn = currentConnection
    /\ ev.dispatched = <<(<<2, 3>>)>>
    /\ OnWire(udpRelay, <<2, 3>>)

\* C15: a Ping envelope of declared length 0 that reaches the active,
\* writable connection is answered with the 5-byte version reply on that
\* connection, and no datagram is transmitted.
C15_EmptyPingAnswered ==
    [][\A c \in Conns :
          (/\ Completes(c, Envelope(Ping, <<>>))
           /\ connectionStates[c].canWrite
           /\ sockets[c] = "open")
          => /\ Len(ev'.writes) = 1
             /\ ev'.writes[1].conn = c
             /\ ev'.writes[1].data = VersionReply
             /\ udpRelay'.wire = <<>>]_vars

C17_UnknownDropped ==
    [][\A c \in Conns, e \in ParserEnvelopes :
          (Completes(c, e) /\ e[1] \notin {Laser, Ping}) =>
             /\ udpRelay' = [udpRelay EXCEPT !.wire = <<>>,
                                             !.uncaught = FALSE]
             /\ ev'.dispatched = <<>>
             /\ ev'.writes = <<>>
             /\ c \in DOMAIN connectionStates'
             /\ connectionStates'[c].gotAck
             /\ connectionStates'[c].packetLen = 0
             /\ connectionStates'[c].packet = <<>>]_vars

C17_Witness ==
    /\ ev.op = "data"
    /\ ev.arg = <<9>>
    /\ ev.conn = currentConnection
    /\ ev.conn \in DOMAIN connectionStates
    /\ connectionStates[ev.conn].packetType = Unknown
    /\ connectionStates[ev.conn].packetLen = 0
    /\ connectionStates[ev.conn].packet = <<>>
    /\ ev.dispatched = <<>>

\* C18: the timeout check closes a connection exactly when its ack-wait
\* flag is set and more than LASER_TIMEOUT has passed since its last
\* dispatch: its state is discarded, its callback unregistered, its timer
\* cleared and its socket ended.  It touches nothing else: the transport
\* stays as it was, the queue is unchanged and no other socket is ended.
\* In every other case (ack-wait clear, or not yet late) the check does
\* nothing.
C18_TimeoutClosesOwner ==
    [][\A c \in Conns :
          (ev'.op = "timeoutTimer" /\ ev'.conn = c) =>
             IF /\ c \in DOMAIN connectionStates
                /\ ~connectionStates[c].gotAck
                /\ connectionStates[c].late
             THEN /\ DOMAIN connectionStates' = DOMAIN connectionStates \ {c}
                  /\ intervals' = intervals \ {c}
                  /\ ev'.ended = {c}
                  /\ sockets' = [sockets EXCEPT
                                   ![c] = IF @ = "open" THEN "ended" ELSE @]
                  /\ udpRelay' = [udpRelay EXCEPT !.callbacks = @ \ {c},
                                                  !.wire = <<>>,
                                                  !.uncaught = FALSE]
                  /\ connectionQueue' = connectionQueue
                  /\ currentConnection' = currentConnection
             ELSE /\ ev'.ended = {}
                  /\ connectionStates' = connectionStates
                  /\ intervals' = intervals
                  /\ sockets' = sockets
                  /\ udpRelay'.callbacks = udpRelay.callbacks
                  /\ connectionQueue' = connectionQueue]_vars

C18_Witness ==
    /\ ev.op = "timeoutTimer"
    /\ ev.ended = {ev.conn}
    /\ ev.busy
    /\ sockets[ev.conn] = "ended"
    /\ ev.conn \notin DOMAIN connectionStates
    /\ ev.conn \notin udpRelay.callbacks
    /\ Len(connectionQueue) >= 1
    /\ \A i \in 1..Len(connectionQueue) : sockets[connectionQueue[i]] = "open"
    /\ udpRelay.isStarted

\* C19: whenever the transport awaits an ack, an active connection exists,
\* holds a session, and has its own ack-wait flag set.
C19_AckWaitOwned ==
    ~udpRelay.gotAck =>
        /\ currentConnection # NoConn
        /\ currentConnection \in DOMAIN connectionStates
        /\ ~connectionStates[currentConnection].gotAck

SessionsOwnCallbacks ==
    /\ udpRelay.callbacks \subseteq DOMAIN connectionStates
    /\ intervals = DOMAIN connectionStates
    /\ DOMAIN connectionStates \subseteq {currentConnection} \ {NoConn}

CloseDestroysOwnSession ==
    \A c \in Conns :
        (ev'.op = "close" /\ ev'.conn = c) =>
            /\ c \notin DOMAIN connectionStates'
            /\ c \notin intervals'
            /\ c \notin udpRelay'.callbacks
            /\ \A d \in DOMAIN connectionStates \ {c} :
                  /\ d \in DOMAIN connectionStates'
                  /\ connectionStates'[d] = connectionStates[d]
                  /\ d \in intervals'
                  /\ (d \in udpRelay'.callbacks) = (d \in udpRelay.callbacks)

ResponsesReachActiveOnly ==
    ev'.op = "udpData" =>
        \A i \in 1..Len(ev'.writes) :
            /\ ev'.writes[i].conn = currentConnection
            /\ ev'.writes[i].conn \notin Range(connectionQueue)
            /\ ~Closed(ev'.writes[i].conn)

\* C20 (as stated): a close destroys exactly the closing connection's
\* session (state, timer, callback); in every state the callbacks
\* registered with the transport are exactly the connections that hold a
\* session, at most the active one; a controller response is written only
\* to the open active connection.
C20_CallbacksAreSessions ==
    [][/\ SessionsOwnCallbacks'
       /\ udpRelay'.callbacks = DOMAIN connectionStates'
       /\ CloseDestroysOwnSession
       /\ ResponsesReachActiveOnly]_vars

\* C20 (amended): as above, except that the registered callbacks equal the
\* session holders only while the transport is started; once the transport
\* has been stopped its callback set is empty while the session of a
\* connection whose close event is still to come remains.
C20_CallbacksAreSessionsWhileStarted ==
    [][/\ SessionsOwnCallbacks'
       /\ udpRelay'.isStarted =>
             udpRelay'.callbacks = DOMAIN connectionStates'
       /\ CloseDestroysOwnSession
       /\ ResponsesReachActiveOnly]_vars

C20_Witness ==
    /\ ev.op = "close"
    /\ ev.activeBefore = ev.conn
    /\ ev.busy
    /\ currentConnection \notin {NoConn, ev.conn}
    /\ DOMAIN connectionStates = {currentConnection}
    /\ udpRelay.callbacks = {currentConnection}
    /\ intervals = {currentConnection}

Sent(w, kind) == {j \in 1..Len(w) : w[j].kind = kind}

\* C21: handshake attempts are bounded.  handshakeRetryCount counts the
\* handshake datagrams sent: it never exceeds maxHandshakeRetries, it grows
\* by one with each handshake datagram and not otherwise, and only a
\* handshake ack or stop() resets it.  A handshake datagram goes out only
\* from start() or from the handshake timeout with the handshake still
\* incomplete, and only while the count is below the budget; so without a
\* handshake ack at most maxHandshakeRetries are sent, and none afterwards.
C21_HandshakeBudget ==
    [][/\ udpRelay'.handshakeRetryCount <= maxHandshakeRetries
       /\ Cardinality(Sent(udpRelay'.wire, "handshake")) <= 1
       /\ Sent(udpRelay'.wire, "handshake") # {} =>
             /\ \/ ev'.op = "start"
                \/ ev'.op = "handshakeTimer" /\ ~udpRelay.isHandshakeComplete
             /\ udpRelay.handshakeRetryCount < maxHandshakeRetries
             /\ udpRelay'.handshakeRetryCount =
                   udpRelay.handshakeRetryCount + 1
             /\ \A j \in Sent(udpRelay'.wire, "handshake") :
                   udpRelay'.wire[j].bytes = controlPacket(CMD_CONNECT)
       /\ udpRelay'.handshakeRetryCount > udpRelay.handshakeRetryCount =>
             Sent(udpRelay'.wire, "handshake") # {}
       /\ udpRelay'.handshakeRetryCount < udpRelay.handshakeRetryCount =>
             \/ ev'.op = "stop"
             \/ ev'.op = "udpData" /\ ev'.arg = <<ACK_CHECKSUM_MATCH>>]_vars

C21_Witness ==
    /\ ev.op = "handshakeTimer"
    /\ udpRelay.isStarted
    /\ ~udpRelay.isHandshakeComplete
    /\ udpRelay.handshakeRetryCount = maxHandshakeRetries
    /\ udpRelay.handshakeTimers = 0
    /\ udpRelay.wire = <<>>

\* the first datagram of each payload's transmission
FirstDatagram == [p \in RelayPayloads |-> Head(fragments(udpPacket(p)))]

\* C22: a send on a started relay that is not awaiting an ack is
\* transmitted (whole, or its first fragment) whatever the handshake state.
C22_SendNotGatedOnHandshake ==
    [][\A p \in RelayPayloads :
          (/\ ev'.op = "send"
           /\ ev'.arg = p
           /\ udpRelay.isStarted
           /\ udpRelay.socket
           /\ udpRelay.gotAck)
          => /\ Len(udpRelay'.wire) = 1
             /\ udpRelay'.wire[1].bytes = FirstDatagram[p]
             /\ ~udpRelay'.gotAck]_vars

C22_Witness ==
    /\ ev.op = "send"
    /\ ~ev.busy
    /\ udpRelay.isStarted
    /\ ~udpRelay.isHandshakeComplete
    /\ udpRelay.handshakeRetryCount = maxHandshakeRetries
    /\ udpRelay.handshakeTimers = 0
    /\ Len(udpRelay.wire) = 1
    /\ udpRelay.wire[1].kind = "data"

\* an action of the bridge's own would put a datagram on the wire
CanTransmit(u) ==
    LET u0 == [u EXCEPT !.wire = <<>>]
    IN  \/ \E p \in RelayPayloads : sendToLaser(u0, p).wire # <<>>
        \/ u.handshakeTimers > 0 /\ handshakeTimeout(u0).wire # <<>>

\* C23: the handshake-fail code leaves the transport awaiting an ack and
\* not connected, in a state the bridge can leave by its own action: a send
\* is accepted or a handshake attempt is still to be made.
C23_HandshakeFailRecoverable ==
    (ev.op = "udpData" /\ ev.arg = <<ACK_CHECKSUM_FAIL>>) =>
        /\ ~udpRelay.gotAck
        /\ ~udpRelay.isHandshakeComplete
        /\ CanTransmit(udpRelay)

\* C25: a keepalive tick transmits the keepalive datagram exactly when the
\* handshake is complete and no ack is awaited, and changes no field of
\* the transport; no other step transmits a keepalive.
C25_KeepaliveFrame ==
    [][/\ ev'.op = "keepalive" =>
             udpRelay' =
                [udpRelay EXCEPT
                   !.uncaught = FALSE,
                   !.wire = IF /\ udpRelay.socket
                               /\ udpRelay.isHandshakeComplete
                               /\ udpRelay.gotAck
                            THEN <<[kind |-> "keepalive", index |-> 0,
                                    bytes |-> controlPacket(CMD_KEEPALIVE)]>>
                            ELSE <<>>]
       /\ Sent(udpRelay'.wire, "keepalive") # {} =>
             /\ ev'.op = "keepalive"
             /\ udpRelay.isHandshakeComplete
             /\ udpRelay.gotAck]_vars

C25_Witness ==
    /\ ev.op = "keepalive"
    /\ ev.busy
    /\ udpRelay.isHandshakeComplete
    /\ udpRelay.wire = <<>>
    /\ udpRelay.outstanding.kind = "fragment"
    /\ udpRelay.currentFragmentIndex = 1

\* C26: stop() sends the disconnect datagram and closes the socket, and
\* from then on nothing is transmitted and no timer callback armed earlier
\* raises an error.
C26_StopSilences ==
    [][/\ (ev'.op = "stop" /\ udpRelay.isStarted) =>
             /\ Len(udpRelay'.wire) = 1
             /\ udpRelay'.wire[1].kind = "disconnect"
             /\ udpRelay'.wire[1].bytes = controlPacket(CMD_DISCONNECT)
             /\ ~udpRelay'.socket
       /\ phase = "stopped" =>
             /\ udpRelay'.wire = <<>>
             /\ ~udpRelay'.uncaught]_vars

\* subtract 1 mod 256, XOR with the magic, swap bits 7 and 0
unscramble(b, magic) ==
    LET dec == (b + 255) % 256
        xored == xor(dec, magic, 8)
        fb == (xored \div 128) * 128
        lb == xored % 2
    IN  (xored - fb - lb) + (lb * 128) + (fb \div 128)

\* C30: the scrambled form of a byte is a byte, and unscrambling it gives
\* the byte back, for every byte value.
C30_ScrambleRoundTrip ==
    ev.op = "encodeBytes" =>
        /\ Len(ev.arg) = Len(ev.dispatched[1])
        /\ \A i \in 1..Len(ev.arg) :
              /\ ev.arg[i] \in 0..255
              /\ ev.arg[i] = swizzleByte(ev.dispatched[1][i], MAGIC)
              /\ unscramble(ev.arg[i], MAGIC) = ev.dispatched[1][i]

\* the byte whose scrambled form wraps from 255 to 0
C30_Witness ==
    /\ ev.op = "encodeBytes"
    /\ ev.dispatched = << <<246>> >>
    /\ ev.arg = <<0>>

\* C24: a controller datagram longer than one byte clears the transport's
\* ack-wait and goes, as a Laser envelope whose length field is the
\* datagram's length, to the active connection and to no other (written,
\* or queued behind its pending bytes when the socket is not writable); it
\* also clears that connection's ack-wait.
C24_ResponseForwarded ==
    [][(ev'.op = "udpData" /\ Len(ev'.arg) > 1) =>
          LET c == currentConnection
              b == ev'.arg
              toActive(e) ==
                  /\ e.conn = c
                  /\ Len(e.data) = Len(b) + 3
                  /\ e.data[1] = Laser
                  /\ (e.data[2] * 256) + e.data[3] = Len(b)
                  /\ SubSeq(e.data, 4, Len(e.data)) = b
          IN  /\ udpRelay'.gotAck
              /\ currentConnection' = c
              /\ \A i \in 1..Len(ev'.offered) : toActive(ev'.offered[i])
              /\ \A i \in 1..Len(ev'.writes) : toActive(ev'.writes[i])
              /\ \A x \in Conns \ {c} :
                    /\ x \in DOMAIN connectionStates' <=>
                          x \in DOMAIN connectionStates
                    /\ x \in DOMAIN connectionStates =>
                          connectionStates'[x] = connectionStates[x]
              /\ (c # NoConn /\ c \in DOMAIN connectionStates) =>
                    /\ c \in DOMAIN connectionStates'
                    /\ connectionStates'[c].gotAck
                    /\ ~Closed(c) =>
                          /\ Len(ev'.offered) = 1
                          /\ IF connectionStates[c].canWrite
                             THEN Len(ev'.writes) = 1
                             ELSE /\ ev'.writes = <<>>
                                  /\ connectionStates'[c].pendingWrites =
                                        Append(connectionStates[c]
                                                  .pendingWrites,
                                               ev'.offered[1].data)]_vars

C24_Witness ==
    /\ ev.op = "udpData"
    /\ ev.arg = <<0, 1, 1>>
    /\ ev.busy
    /\ udpRelay.gotAck
    /\ currentConnection # NoConn
    /\ connectionQueue # <<>>
    /\ OpenOnly(connectionQueue) # <<>>
    /\ Len(ev.writes) = 1
    /\ ev.writes[1].conn = currentConnection
    /\ ev.writes[1].data = <<Laser, 0, 3, 0, 1, 1>>
    /\ connectionStates[currentConnection].gotAck

RECURSIVE Flat(_)
Flat(q) == IF q = <<>> THEN <<>> ELSE Head(q) \o Flat(Tail(q))

RECURSIVE AcceptedBy(_, _)
AcceptedBy(w, c) ==
    IF w = <<>> THEN <<>>
    ELSE (IF Head(w).conn = c /\ Head(w).written > 0
          THEN SubSeq(Head(w).data, 1, Head(w).written)
          ELSE <<>>) \o AcceptedBy(Tail(w), c)

RECURSIVE OfferedTo(_, _)
OfferedTo(o, c) ==
    IF o = <<>> THEN <<>>
    ELSE (IF Head(o).conn = c THEN Head(o).data ELSE <<>>)
            \o OfferedTo(Tail(o), c)

\* C27: the bytes a socket accepts are the bytes passed to write, in call
\* order.  In every step the bytes accepted followed by the bytes left
\* pending are the bytes pending before followed by the buffers passed to
\* write in that step (a flush passes none), so over a run the accepted
\* bytes followed by the pending ones are the concatenation of all buffers
\* passed: a remainder goes out before any later buffer and nothing is
\* duplicated.  Outside a flush nothing is written to a socket that is not
\* writable, and a writable socket has nothing pending.
C27_WriteOrder ==
    [][\A c \in Conns :
          (c \in DOMAIN connectionStates /\ c \in DOMAIN connectionStates') =>
             LET R == Flat(connectionStates[c].pendingWrites)
                 Rn == Flat(connectionStates'[c].pendingWrites)
                 A == AcceptedBy(ev'.writes, c)
                 O == IF ev'.op = "handleDrain" THEN <<>>
                      ELSE OfferedTo(ev'.offered, c)
             IN  /\ A \o Rn = R \o O
                 /\ (~connectionStates[c].canWrite
                       /\ ev'.op # "handleDrain") =>
                       \A i \in 1..Len(ev'.writes) : ev'.writes[i].conn # c
                 /\ connectionStates'[c].canWrite =>
                       connectionStates'[c].pendingWrites = <<>>]_vars

\* a flush whose first write is short again, with a later buffer queued
C27_Witness ==
    /\ ev.op = "handleDrain"
    /\ ev.conn \in DOMAIN connectionStates
    /\ Len(ev.writes) = 1
    /\ ev.writes[1].written < Len(ev.writes[1].data)
    /\ Len(connectionStates[ev.conn].pendingWrites) = 2
    /\ ~connectionStates[ev.conn].canWrite

\* C28: a drain signal on a connection that a short write marked
\* not-writable marks it writable again and writes its pending bytes.
C28_DrainFlushes ==
    [][\A c \in Conns :
          (/\ ev'.op = "drain"
           /\ ev'.conn = c
           /\ c \in DOMAIN connectionStates
           /\ ~connectionStates[c].canWrite
           /\ connectionStates[c].pendingWrites # <<>>)
          => /\ ev'.writes # <<>>
             /\ ev'.writes[1].conn = c
             /\ ev'.writes[1].data = Head(connectionStates[c].pendingWrites)
             /\ c \in DOMAIN connectionStates'
             /\ \/ connectionStates'[c].canWrite
                \/ \E i \in 1..Len(ev'.writes) :
                      ev'.writes[i].written < Len(ev'.writes[i].data)]_vars

\* C29: an error reported on the active connection's socket ends its
\* session: its state is discarded, its callback unregistered and its
\* timer cancelled, the active slot is released and the first open queued
\* connection takes it; the transport is otherwise untouched.
C29_ErrorCleansUp ==
    [][\A c \in Conns :
          (ev'.op = "error" /\ ev'.conn = c /\ currentConnection = c) =>
             /\ c \notin DOMAIN connectionStates'
             /\ c \notin udpRelay'.callbacks
             /\ c \notin intervals'
             /\ currentConnection' # c
             /\ OpenOnly(connectionQueue) # <<>> =>
                   currentConnection' = Head(OpenOnly(connectionQueue))
             /\ udpRelay'.gotAck = udpRelay.gotAck
             /\ udpRelay'.isStarted = udpRelay.isStarted]_vars

\* a send that the relay accepts: started, socket bound, no ack awaited
Accepted(p) ==
    /\ ev'.op = "send"
    /\ ev'.arg = p
    /\ udpRelay.isStarted
    /\ udpRelay.socket
    /\ udpRelay.gotAck

\* the datagram an accepted send has built: the one on the wire, or the
\* fragments it was cut into
Built(u) ==
    IF u.pendingFragments = <<>> THEN u.wire[1].bytes
    ELSE Flat(u.pendingFragments)

C33_OneDatagramPerSend ==
    [][/\ \A p \in RelayPayloads :
             Accepted(p) =>
                /\ Len(udpRelay'.wire) = 1
                /\ udpRelay'.wire[1].bytes = FirstDatagram[p]
                /\ ~udpRelay'.gotAck
       /\ (/\ ev.op = "send"
           /\ ~ev.busy
           /\ udpRelay.wire # <<>>
           /\ ev'.op # "udpData")
          => /\ Sent(udpRelay'.wire, "data") = {}
             /\ Sent(udpRelay'.wire, "fragment") = {}]_vars

\* what the handshake ack does: connected, ack-wait cleared, handshake
\* retry counter 0, one keepalive timer running, nothing transmitted
HandshakeAckConnects ==
    (ev'.op = "udpData" /\ ev'.arg = <<ACK_CHECKSUM_MATCH>>) =>
        /\ udpRelay'.isHandshakeComplete
        /\ udpRelay'.gotAck
        /\ udpRelay'.handshakeRetryCount = 0
        /\ udpRelay'.keepaliveInterval
        /\ udpRelay'.keepaliveTimers = 1
        /\ udpRelay'.wire = <<>>

\* C34 as stated: the handshake ack connects the transport and leaves
\* exactly one keepalive timer running, however often it arrives; and once
\* it has arrived (a keepalive timer is running) a handshake timeout that
\* fires sends no handshake.
C34_NoHandshakeAfterAck ==
    [][/\ HandshakeAckConnects
       /\ udpRelay'.keepaliveTimers <= 1
       /\ (ev'.op = "handshakeTimer" /\ udpRelay.keepaliveTimers > 0) =>
             Sent(udpRelay'.wire, "handshake") = {}]_vars

\* C34 amended: the same, for a handshake timeout that fires while the
\* transport is still connected.
C34_NoHandshakeWhileConnected ==
    [][/\ HandshakeAckConnects
       /\ udpRelay'.keepaliveTimers <= 1
       /\ (ev'.op = "handshakeTimer" /\ udpRelay.isHandshakeComplete) =>
             /\ udpRelay'.wire = <<>>
             /\ udpRelay'.handshakeRetryCount = udpRelay.handshakeRetryCount
             /\ udpRelay'.handshakeTimers = udpRelay.handshakeTimers - 1
      ]_vars

C34_Witness ==
    /\ ev.op = "handshakeTimer"
    /\ udpRelay.isHandshakeComplete
    /\ udpRelay.gotAck
    /\ udpRelay.handshakeRetryCount = 0
    /\ udpRelay.keepaliveTimers = 1
    /\ udpRelay.wire = <<>>

\* what the two envelopes of a pair call for: a version reply for each
\* Ping, a dispatch to the transport for each Data envelope
Replies(pr) ==
    (IF pr[1][1] = Ping THEN <<VersionReply>> ELSE <<>>)
       \o (IF pr[2][1] = Ping THEN <<VersionReply>> ELSE <<>>)

Dispatches(pr) ==
    (IF pr[1][1] = Laser THEN <<Payload(pr[1])>> ELSE <<>>)
       \o (IF pr[2][1] = Laser THEN <<Payload(pr[2])>> ELSE <<>>)

\* C35: a read that delivers a complete Ping or unknown-type envelope
\* followed by a second complete envelope, to the active connection at an
\* envelope boundary, dispatches both in order and leaves nothing in the
\* buffer.
C35_BothDispatched ==
    [][\A c \in Conns, pr \in PipelinePairs :
          (/\ ev'.op = "data"
           /\ ev'.conn = c
           /\ ev'.arg = pr[1] \o pr[2]
           /\ currentConnection = c
           /\ c \in DOMAIN connectionStates
           /\ connectionStates[c].gotAck
           /\ connectionStates[c].canWrite
           /\ Acc(connectionStates[c]) = <<>>
           /\ sockets[c] = "open")
          => /\ c \in DOMAIN connectionStates'
             /\ Acc(connectionStates'[c]) = <<>>
             /\ [i \in 1..Len(ev'.writes) |-> ev'.writes[i].data]
                   = Replies(pr)
             /\ ev'.dispatched = Dispatches(pr)]_vars

\* C36: the close of a connection that waits in the queue removes that
\* entry and nothing else: the other entries keep their order, the active
\* connection, its session, its timer and its callback stay, and nothing
\* is activated.  A connection whose close has been handled is neither
\* active nor queued ever after.
C36_CloseQueued ==
    [][/\ \A c \in Conns :
            (/\ ev'.op = "close"
             /\ ev'.conn = c
             /\ c \in Range(connectionQueue)
             /\ currentConnection # c)
            => /\ connectionQueue' =
                     SelectSeq(connectionQueue, LAMBDA x : x # c)
               /\ currentConnection' = currentConnection
               /\ isProcessingConnection' = isProcessingConnection
               /\ connectionStates' = connectionStates
               /\ intervals' = intervals
               /\ udpRelay'.callbacks = udpRelay.callbacks
       /\ \A c \in Conns :
            sockets'[c] = "done" =>
               /\ currentConnection' # c
               /\ c \notin Range(connectionQueue')]_vars

\* the first of two waiting connections closes
C36_Witness ==
    /\ ev.op = "close"
    /\ ev.activeBefore # NoConn
    /\ ev.activeBefore # ev.conn
    /\ Len(ev.queueBefore) >= 2
    /\ ev.queueBefore[1] = ev.conn
    /\ connectionQueue = Tail(ev.queueBefore)
    /\ currentConnection = ev.activeBefore
    /\ currentConnection \in DOMAIN connectionStates

\* C38: between callbacks, an empty active slot means no open connection
\* is waiting in the queue, and isProcessingConnection is set exactly when
\* a connection is active.
C38_NoLostWakeup ==
    /\ currentConnection = NoConn => OpenOnly(connectionQueue) = <<>>
    /\ isProcessingConnection <=> currentConnection # NoConn

\* the active connection has closed and the one waiting behind it took over
C38_Witness ==
    /\ ev.op = "close"
    /\ ev.activeBefore = ev.conn
    /\ Len(ev.queueBefore) = 1
    /\ currentConnection = ev.queueBefore[1]
    /\ isProcessingConnection
    /\ connectionQueue = <<>>

\* C37: a one-byte controller response is passed to the client only when
\* the connection's last Data payload was at most 500 bytes long.
C37_AckFilteredAfterLargePayload ==
    [][\A c \in Conns :
          (/\ ev'.op = "udpData"
           /\ Len(ev'.arg) = 1
           /\ currentConnection = c
           /\ c \in DOMAIN connectionStates
           /\ connectionStates[c].lastLen > 500)
          => /\ ev'.offered = <<>>
             /\ ev'.writes = <<>>]_vars

\* C39: while fragments of a connection's payload are still to be
\* acknowledged, that connection's ack-wait flag is set.
C39_ParserClosedDuringFragments ==
    \A c \in DOMAIN connectionStates :
        (/\ c = currentConnection
         /\ connectionStates[c].lastLen = Len(BigPayload)
         /\ udpRelay.pendingFragments # <<>>
         /\ udpRelay.outstanding.kind = "fragment"
         /\ ~udpRelay.gotAck)
        => ~connectionStates[c].gotAck

\* the datagrams each payload is transmitted as
DatagramsOf == [p \in RelayPayloads |-> fragments(udpPacket(p))]

\* C40: a payload datagram that goes out in any step other than the send
\* itself is a datagram of the payload accepted last, that is, of the
\* payload whose datagram was transmitted last, at the index it is sent
\* under.
C40_FragmentsOfCurrentPayload ==
    [][\A j \in 1..Len(udpRelay'.wire) :
          LET d == udpRelay'.wire[j]
          IN  (d.kind \in {"data", "fragment"} /\ ev'.op # "send") =>
                 \E p \in RelayPayloads :
                    /\ \E k \in 1..Len(DatagramsOf[p]) :
                          DatagramsOf[p][k] = udpRelay.outstanding.bytes
                    /\ d.index + 1 <= Len(DatagramsOf[p])
                    /\ d.bytes = DatagramsOf[p][d.index + 1]]_vars

====
